---- MODULE Spec2Model ----
(***************************************************************************)
(* Wallet-connect React components of the repository:                     *)
(*   "Multi"  : MultiWalletConnect  (components/ui/multi-wallet-connect)   *)
(*   "MetaUI" : MetaMaskConnect     (components/ui/metamask-connect)       *)
(*   "Meta0"  : MetaMaskConnect     (the older copy, unnamed/part_000)     *)
(* The wallet providers (window.ethereum, window.solana, window.keplr),    *)
(* the cookie jar and the user are the environment.  Every step is one     *)
(* JavaScript task: a click handler, a promise continuation up to its next *)
(* await, or a provider event delivered to the registered listeners,       *)
(* together with the re-render and the effect run it causes.               *)
(***************************************************************************)
EXTENDS Integers, Sequences, FiniteSets, Bags, TLC

VARIABLES
    component,        \* which of the three components is on the page
    present,          \* the wallet globals the browser has injected
    mounted,          \* "no" before the component mounts, "yes", then "gone"
    isOpen,           \* useState(false)
    connectedWallet,  \* useState<WalletType | null>(null)   (Multi)
    isConnected,      \* useState(false)                      (MetaUI, Meta0)
    account,          \* useState('')
    cookies,          \* the js-cookie jar: walletType, accountAddress
    listeners,        \* per provider: the listeners registered with on(...)
    effectRuns,       \* how many times a useEffect body has run
    pending,          \* bag of the async calls awaiting a provider's answer
    lastOp            \* what the last step did (observation only)

vars == <<component, present, mounted, isOpen, connectedWallet,
          isConnected, account, cookies, listeners, effectRuns, pending,
          lastOp>>

----------------------------------------------------------------------------
(* Bounds of the model *)

MaxPending == 2      \* async calls in flight at once
MaxEffectRuns == 3   \* effect runs (each registers listeners)

----------------------------------------------------------------------------
(* JavaScript values *)

NULL == "<null>"
UNDEFINED == "<undefined>"
ABSENT == "<no cookie>"

Components == {"Multi", "MetaUI", "Meta0"}
MetaComponents == {"MetaUI", "Meta0"}

WalletType == {"MetaMask", "Phantom", "Keplr"}

\* The account lists a provider may answer or announce.  Phantom has one
\* public key or none (<<>> stands for null); the others a list of accounts.
AccountLists(w) ==
    CASE w = "MetaMask" -> {<<>>, <<"0xA">>, <<"0xB", "0xA">>}
      [] w = "Phantom"  -> {<<>>, <<"SolA">>}
      [] w = "Keplr"    -> {<<>>, <<"cosmosA">>}

\* accounts[0] : undefined when the list is empty
First(accounts) == IF Len(accounts) > 0 THEN accounts[1] ELSE UNDEFINED

\* js-cookie writes String(value)
CookieWrite(value) ==
    IF value = NULL THEN "null"
    ELSE IF value = UNDEFINED THEN "undefined"
    ELSE value

NoCookies == [walletType |-> ABSENT, accountAddress |-> ABSENT]

----------------------------------------------------------------------------
(* The component state the handlers read and write, as one record *)

State ==
    [isOpen |-> isOpen, connectedWallet |-> connectedWallet,
     isConnected |-> isConnected, account |-> account, cookies |-> cookies]

\* useState initial values; the cookie jar belongs to the browser
InitialState(jar) ==
    [isOpen |-> FALSE, connectedWallet |-> NULL, isConnected |-> FALSE,
     account |-> "", cookies |-> jar]

\* A state setter of a component that is no longer mounted does nothing;
\* writes to the cookie jar happen all the same.
Commit(old, new) ==
    IF mounted = "yes"
    THEN new
    ELSE [old EXCEPT !.cookies = new.cookies]

----------------------------------------------------------------------------
(* MultiWalletConnect handlers *)

\* refreshCookies that leaves a walletType cookie already in the jar
refreshCookies_keepsWalletType(s, walletType, accountAddress) ==
    [s EXCEPT !.cookies = [walletType |-> IF s.cookies.walletType = ABSENT
                                          THEN CookieWrite(walletType)
                                          ELSE s.cookies.walletType,
                           accountAddress |-> CookieWrite(accountAddress)]]

refreshCookies(s, walletType, accountAddress) ==
    [s EXCEPT !.cookies = [walletType |-> CookieWrite(walletType),
                           accountAddress |-> CookieWrite(accountAddress)]]

\* disconnectWallet_Multi without the two Cookies.remove calls
disconnectWallet_Multi_keepsCookies(s) ==
    [s EXCEPT !.connectedWallet = NULL, !.account = "", !.isOpen = FALSE]

disconnectWallet_Multi(s) ==
    [s EXCEPT !.connectedWallet = NULL, !.account = "", !.isOpen = FALSE,
              !.cookies = NoCookies]

\* handleAccountsChanged_Multi without the else branch
handleAccountsChanged_Multi_noElse(s, cw, accounts) ==
    IF Len(accounts) > 0
    THEN refreshCookies([s EXCEPT !.account = accounts[1]], cw, accounts[1])
    ELSE s

\* cw is the connectedWallet of the render whose effect registered the listener
handleAccountsChanged_Multi(s, cw, accounts) ==
    IF Len(accounts) > 0
    THEN refreshCookies([s EXCEPT !.account = accounts[1]], cw, accounts[1])
    ELSE disconnectWallet_Multi(s)

\* the solana 'accountChanged' listener; publicKey is <<>> for null
solanaAccountChanged_Multi(s, cw, publicKey) ==
    IF Len(publicKey) > 0
    THEN refreshCookies([s EXCEPT !.account = publicKey[1]], cw, publicKey[1])
    ELSE disconnectWallet_Multi(s)

\* setConnected_Multi with the MetaMask branch's wallet name pasted into
\* the other branches
setConnected_Multi_pasted(s, w, acct) ==
    refreshCookies([s EXCEPT !.account = acct, !.connectedWallet = "MetaMask"],
                   w, acct)

\* the three assignments that follow a successful answer
setConnected_Multi(s, w, acct) ==
    refreshCookies([s EXCEPT !.account = acct, !.connectedWallet = w], w, acct)

----------------------------------------------------------------------------
(* MetaMaskConnect handlers *)

handleAccountsChanged_MetaUI(s, accounts) ==
    IF Len(accounts) > 0
    THEN [s EXCEPT !.account = accounts[1], !.isConnected = TRUE]
    ELSE [s EXCEPT !.isConnected = FALSE, !.account = ""]

disconnectWallet_MetaUI(s) ==
    [s EXCEPT !.isConnected = FALSE, !.account = "", !.isOpen = FALSE]

disconnectWallet_Meta0(s) ==
    [s EXCEPT !.isConnected = FALSE, !.account = ""]

----------------------------------------------------------------------------
(* Provider API *)

\* the call that asks a provider for an already-authorized account
Query(w) ==
    CASE w = "MetaMask" -> "eth_accounts"
      [] w = "Phantom"  -> "isConnected"
      [] w = "Keplr"    -> "getAccounts"

\* the call that asks the user to authorize the page
Auth(w) ==
    CASE w = "MetaMask" -> "eth_requestAccounts"
      [] w = "Phantom"  -> "connect"
      [] w = "Keplr"    -> "enable"

\* result of one task of an async function: the state it leaves, where it
\* awaits next ("done" when it returned), what happened, the provider calls
\* it issued and how it reported an error
Result(s, next, outcome, calls, reported) ==
    [s |-> s, next |-> next, outcome |-> outcome, calls |-> calls,
     reported |-> reported]

----------------------------------------------------------------------------
(* MultiWalletConnect: checkExistingConnection and connectWallet *)

\* checkExistingConnection(w) once its awaited query has settled: ok is
\* whether the promise resolved, resp the account list (for Phantom the
\* public key, <<>> when isConnected() is false or publicKey is null)
checkExistingConnection(s, w, ok, resp) ==
    IF ok /\ Len(resp) > 0
    THEN [s |-> setConnected_Multi(s, w, resp[1]), found |-> TRUE,
          reported |-> {}]
    ELSE [s |-> s, found |-> FALSE,
          reported |-> IF ok \/ w = "Keplr" THEN {} ELSE {"log"}]

\* connectFailed_Multi with the dialog closed in the catch block
connectFailed_Multi_closes(s) ==
    Result([s EXCEPT !.isOpen = FALSE], "done", "failed", {}, {"log", "alert"})

\* the catch block of connectWallet: console.error and alert
connectFailed_Multi(s) == Result(s, "done", "failed", {}, {"log", "alert"})

\* connectWallet(w) up to its first await: checkExistingConnection(w) queries
\* the provider when it is there; when it is not, the check returns false
\* and the switch throws 'not detected'
connectStart_Multi(s, w) ==
    IF w \in present
    THEN Result(s, "chk", "pending", {<<w, Query(w)>>}, {})
    ELSE connectFailed_Multi(s)

\* afterCheck_Multi without the early return
afterCheck_Multi_noReturn(s, w, ok, resp) ==
    LET c == checkExistingConnection(s, w, ok, resp) IN
    IF w \in present
    THEN Result([c.s EXCEPT !.isOpen = IF c.found THEN FALSE ELSE @], "req",
                "pending", {<<w, Auth(w)>>}, c.reported)
    ELSE connectFailed_Multi(s)

\* afterCheck_Multi with a throwing probe ending the attempt
afterCheck_Multi_abort(s, w, ok, resp) ==
    LET c == checkExistingConnection(s, w, ok, resp) IN
    IF ~ok THEN connectFailed_Multi(s)
    ELSE IF c.found
    THEN Result([c.s EXCEPT !.isOpen = FALSE], "done", "existing", {}, {})
    ELSE Result(s, "req", "pending", {<<w, Auth(w)>>}, c.reported)

\* connectWallet(w) from the settled check to the authorization request
afterCheck_Multi(s, w, ok, resp) ==
    LET c == checkExistingConnection(s, w, ok, resp) IN
    IF c.found
    THEN Result([c.s EXCEPT !.isOpen = FALSE], "done", "existing", {}, {})
    ELSE IF w \in present
    THEN Result(s, "req", "pending", {<<w, Auth(w)>>}, c.reported)
    ELSE connectFailed_Multi(s)

\* connectWallet(w) from the settled authorization request: Phantom's
\* connect() answers with the public key, the others are asked for accounts
afterAuth_Multi(s, w, ok, resp) ==
    IF ~ok THEN connectFailed_Multi(s)
    ELSE IF w = "Phantom"
    THEN Result([setConnected_Multi(s, w, resp[1]) EXCEPT !.isOpen = FALSE],
                "done", "connected", {}, {})
    ELSE Result(s, "acc", "pending", {<<w, Query(w)>>}, {})

\* connectWallet(w) from the settled accounts query to its end;
\* accounts[0].address throws on Keplr's empty list
afterAccounts_Multi(s, w, ok, resp) ==
    IF ~ok \/ (w = "Keplr" /\ Len(resp) = 0)
    THEN connectFailed_Multi(s)
    ELSE Result([setConnected_Multi(s, w, First(resp)) EXCEPT !.isOpen = FALSE],
                "done", "connected", {}, {})

connectWallet_Multi(s, w, pc, ok, resp) ==
    CASE pc = "start" -> connectStart_Multi(s, w)
      [] pc = "chk"   -> afterCheck_Multi(s, w, ok, resp)
      [] pc = "req"   -> afterAuth_Multi(s, w, ok, resp)
      [] pc = "acc"   -> afterAccounts_Multi(s, w, ok, resp)

----------------------------------------------------------------------------
(* MetaMaskConnect (both copies): checkConnection and connectWallet *)

checkConnection(s, pc, ok, resp) ==
    CASE pc = "start" ->
           IF "MetaMask" \in present
           THEN Result(s, "chk", "pending", {<<"MetaMask", "eth_accounts">>}, {})
           ELSE Result(s, "done", "none", {}, {})
      [] pc = "chk" ->
           IF ~ok THEN Result(s, "done", "failed", {}, {"log"})
           ELSE IF Len(resp) > 0
           THEN Result([s EXCEPT !.account = resp[1], !.isConnected = TRUE],
                       "done", "existing", {}, {})
           ELSE Result(s, "done", "none", {}, {})

connectWallet_Meta(s, pc, ok, resp) ==
    CASE pc = "start" ->
           IF "MetaMask" \in present
           THEN Result(s, "req", "pending", {<<"MetaMask", "eth_requestAccounts">>}, {})
           ELSE Result(s, "done", "failed", {}, {"log"})
      [] pc = "req" ->
           IF ~ok THEN Result(s, "done", "failed", {}, {"log"})
           ELSE Result(s, "acc", "pending", {<<"MetaMask", "eth_accounts">>}, {})
      [] pc = "acc" ->
           IF ~ok THEN Result(s, "done", "failed", {}, {"log"})
           ELSE Result([s EXCEPT !.account = First(resp), !.isConnected = TRUE,
                                 !.isOpen = FALSE],
                       "done", "connected", {}, {})

\* the async function fn of the component on the page, one task of it
Task(fn, s, w, pc, ok, resp) ==
    IF fn = "checkConnection" THEN checkConnection(s, pc, ok, resp)
    ELSE IF component = "Multi" THEN connectWallet_Multi(s, w, pc, ok, resp)
    ELSE connectWallet_Meta(s, pc, ok, resp)

----------------------------------------------------------------------------
(* useEffect: listener registration and cleanup *)

\* the providers whose account-change event the component's effect listens to
Subscribes(c) ==
    CASE c = "Multi"  -> {"MetaMask", "Phantom"}
      [] c = "MetaUI" -> {"MetaMask"}
      [] c = "Meta0"  -> {}

\* MountProbes with the probe left out of the effect
MountProbes_none(c) == {}

\* MountProbes with every component probing window.ethereum on mount
MountProbes_all(c) == {"MetaMask"}

\* the providers the effect probes on mount (checkConnection)
MountProbes(c) == IF c \in MetaComponents THEN {"MetaMask"} ELSE {}

\* the function object handed to on(...) by effect run r: an arrow function
\* created in place
RegisteredFn(w, r) == [kind |-> "arrow", run |-> r]

\* the function object handed to removeListener(...) by the cleanup of that
\* run: handleAccountsChanged itself for ethereum, a new empty arrow function
\* for solana
RemovedFn(w, r) ==
    IF w = "MetaMask"
    THEN [kind |-> "handleAccountsChanged", run |-> r]
    ELSE [kind |-> "empty arrow", run |-> r]

\* emitter.removeListener: drops the listener added last that is fn itself
RemoveListener(ls, fn) ==
    LET hits == {k \in 1..Len(ls) : ls[k].fn = fn} IN
    IF hits = {} THEN ls
    ELSE LET last == CHOOSE k \in hits : \A j \in hits : j <= k IN
         [k \in 1..(Len(ls) - 1) |-> IF k < last THEN ls[k] ELSE ls[k + 1]]

\* the effect body of run r, rendered with connectedWallet = cw
Register(ls, c, r, cw) ==
    [w \in WalletType |->
        IF w \in Subscribes(c) /\ w \in present
        THEN Append(ls[w], [fn |-> RegisteredFn(w, r), cw |-> cw])
        ELSE ls[w]]

\* the function the effect returns
Cleanup(ls, c, r) ==
    [w \in WalletType |->
        IF w \in Subscribes(c) /\ w \in present
        THEN RemoveListener(ls[w], RemovedFn(w, r))
        ELSE ls[w]]

\* what a registered listener does with the event's payload
Listener(s, w, cw, accounts) ==
    IF component = "Multi"
    THEN IF w = "MetaMask"
         THEN handleAccountsChanged_Multi(s, cw, accounts)
         ELSE solanaAccountChanged_Multi(s, cw, accounts)
    ELSE handleAccountsChanged_MetaUI(s, accounts)

\* emit: the listeners run in the order they were registered
RECURSIVE Deliver(_, _, _, _)
Deliver(ls, s, w, accounts) ==
    IF ls = <<>> THEN s
    ELSE Deliver(Tail(ls),
                 Commit(s, Listener(s, w, Head(ls).cw, accounts)),
                 w, accounts)

\* Re-render with the new state.  MultiWalletConnect's effect depends on
\* connectedWallet: when it changed, the previous run is cleaned up and the
\* effect runs again.
Render(new) ==
    /\ isOpen' = new.isOpen
    /\ connectedWallet' = new.connectedWallet
    /\ isConnected' = new.isConnected
    /\ account' = new.account
    /\ cookies' = new.cookies
    /\ IF component = "Multi" /\ mounted = "yes"
          /\ new.connectedWallet # connectedWallet
       THEN /\ effectRuns < MaxEffectRuns
            /\ effectRuns' = effectRuns + 1
            /\ listeners' = Register(Cleanup(listeners, component, effectRuns),
                                     component, effectRuns + 1,
                                     new.connectedWallet)
       ELSE UNCHANGED <<effectRuns, listeners>>

Op(op, w, pc, ok, outcome, calls, attempt, resp, reported) ==
    [op |-> op, w |-> w, pc |-> pc, ok |-> ok, outcome |-> outcome,
     calls |-> calls, attempt |-> attempt, resp |-> resp, reported |-> reported]

----------------------------------------------------------------------------
(* Initial state: the page before the component is mounted *)

Init ==
    /\ component \in Components
    /\ present \in SUBSET WalletType
    /\ component \in MetaComponents => present \subseteq {"MetaMask"}
    /\ mounted = "no"
    /\ isOpen = FALSE
    /\ connectedWallet = NULL
    /\ isConnected = FALSE
    /\ account = ""
    /\ cookies = NoCookies
    /\ listeners = [w \in WalletType |-> <<>>]
    /\ effectRuns = 0
    /\ pending = EmptyBag
    /\ lastOp = Op("init", NULL, "none", TRUE, "none", {}, {}, <<>>, {})

----------------------------------------------------------------------------
(* Steps *)

\* an async function suspended at the await pc
Awaiting(fn, w, pc, calls) == [fn |-> fn, w |-> w, pc |-> pc, calls |-> calls]

\* First render of the component and its effect: listeners are registered
\* and, in MetaMaskConnect, checkConnection() is started.
Mount ==
    /\ mounted = "no"
    /\ effectRuns < MaxEffectRuns
    /\ LET s0 == InitialState(cookies)
           r  == IF MountProbes(component) # {}
                 THEN checkConnection(s0, "start", TRUE, <<>>)
                 ELSE Result(s0, "done", "none", {}, {})
       IN  /\ r.next # "done" => BagCardinality(pending) < MaxPending
           /\ mounted' = "yes"
           /\ isOpen' = r.s.isOpen
           /\ connectedWallet' = r.s.connectedWallet
           /\ isConnected' = r.s.isConnected
           /\ account' = r.s.account
           /\ cookies' = r.s.cookies
           /\ listeners' = Register(listeners, component, effectRuns + 1, NULL)
           /\ effectRuns' = effectRuns + 1
           /\ pending' = IF r.next = "done" THEN pending
                         ELSE pending (+) SetToBag({Awaiting("checkConnection",
                                                    "MetaMask", r.next, r.calls)})
           /\ lastOp' = Op("mount", NULL, "start", TRUE, r.outcome, r.calls,
                           r.calls, <<>>, r.reported)
    /\ UNCHANGED <<component, present>>

\* The component is removed from the page: the effect's cleanup runs and the
\* component's state is discarded (the variables go back to their useState
\* values).  Listeners that stay registered and async functions that are
\* suspended go on running; see Commit.
Unmount ==
    /\ mounted = "yes"
    /\ mounted' = "gone"
    /\ listeners' = Cleanup(listeners, component, effectRuns)
    /\ isOpen' = InitialState(cookies).isOpen
    /\ connectedWallet' = InitialState(cookies).connectedWallet
    /\ isConnected' = InitialState(cookies).isConnected
    /\ account' = InitialState(cookies).account
    /\ lastOp' = Op("unmount", NULL, "none", TRUE, "none", {}, {}, <<>>, {})
    /\ UNCHANGED <<component, present, cookies, effectRuns, pending>>

\* the trigger button: setIsOpen(true); in components/ui MetaMaskConnect only
\* when connected (otherwise the button calls connectWallet)
OpenDialog ==
    /\ mounted = "yes"
    /\ ~isOpen
    /\ component = "MetaUI" => isConnected
    /\ Render([State EXCEPT !.isOpen = TRUE])
    /\ lastOp' = Op("open", NULL, "none", TRUE, "none", {}, {}, <<>>, {})
    /\ UNCHANGED <<component, present, mounted, pending>>

\* <Dialog onOpenChange={setIsOpen}>: the user dismisses the dialog
CloseDialog ==
    /\ mounted = "yes"
    /\ isOpen
    /\ Render([State EXCEPT !.isOpen = FALSE])
    /\ lastOp' = Op("close", NULL, "none", TRUE, "none", {}, {}, <<>>, {})
    /\ UNCHANGED <<component, present, mounted, pending>>

\* is a control that calls connectWallet(w) rendered and enabled
CanConnect(w) ==
    CASE component = "Multi"  ->
           isOpen /\ connectedWallet = NULL /\ w \in present
      [] component = "MetaUI" ->
           w = "MetaMask" /\ ~isConnected /\ (isOpen => w \in present)
      [] component = "Meta0"  ->
           w = "MetaMask" /\ isOpen /\ w \in present

\* the user clicks a connect button: connectWallet runs to its first await
ClickConnect(w) ==
    /\ mounted = "yes"
    /\ CanConnect(w)
    /\ LET r == Task("connectWallet", State, w, "start", TRUE, <<>>) IN
         /\ r.next # "done" => BagCardinality(pending) < MaxPending
         /\ Render(r.s)
         /\ pending' = IF r.next = "done" THEN pending
                       ELSE pending (+) SetToBag({Awaiting("connectWallet", w,
                                                           r.next, r.calls)})
         /\ lastOp' = Op("connectWallet", w, "start", TRUE, r.outcome,
                         r.calls, r.calls, <<>>, r.reported)
    /\ UNCHANGED <<component, present, mounted>>

disconnectWallet(s) ==
    CASE component = "Multi"  -> disconnectWallet_Multi(s)
      [] component = "MetaUI" -> disconnectWallet_MetaUI(s)
      [] component = "Meta0"  -> disconnectWallet_Meta0(s)

\* is the Disconnect button rendered
CanDisconnect ==
    isOpen /\ IF component = "Multi" THEN connectedWallet # NULL ELSE isConnected

ClickDisconnect ==
    /\ mounted = "yes"
    /\ CanDisconnect
    /\ Render(disconnectWallet(State))
    /\ lastOp' = Op("disconnectWallet", NULL, "none", TRUE, "none", {}, {},
                    <<>>, {})
    /\ UNCHANGED <<component, present, mounted, pending>>

\* The provider settles the call the suspended function p awaits and the
\* function runs on to its next await or to its end.  resp is the answer: the
\* accounts the provider exposes at that moment (at least one after a granted
\* connect(); nothing is read from a rejected call).
Settle(p, ok, resp) ==
    /\ BagIn(p, pending)
    /\ ok /\ p.w = "Phantom" /\ p.pc = "req" => resp # <<>>
    /\ ~ok => resp = <<>>
    /\ LET r   == Task(p.fn, State, p.w, p.pc, ok, resp)
           new == Commit(State, r.s)
           rest == pending (-) SetToBag({p})
       IN  /\ Render(new)
           /\ pending' = IF r.next = "done" THEN rest
                         ELSE rest (+) SetToBag({Awaiting(p.fn, p.w, r.next,
                                                          p.calls \cup r.calls)})
           /\ lastOp' = Op(p.fn, p.w, p.pc, ok, r.outcome, r.calls,
                           p.calls \cup r.calls, resp, r.reported)
    /\ UNCHANGED <<component, present, mounted>>

Resolve(p, resp) == Settle(p, TRUE, resp)

Reject(p) == Settle(p, FALSE, <<>>)

\* the providers that emit an account-change event
Emitters == {"MetaMask", "Phantom"}

\* The accounts a provider exposes change (the user switches account, locks
\* the wallet or revokes the page) and the provider emits its account-change
\* event to the listeners registered with it.
ProviderEvent(w, accounts) ==
    /\ w \in present \cap Emitters
    /\ Render(Deliver(listeners[w], State, w, accounts))
    /\ lastOp' = Op("accountsChanged", w, "none", TRUE, "none", {}, {},
                    accounts, {})
    /\ UNCHANGED <<component, present, mounted, pending>>

Next ==
    \/ Mount
    \/ Unmount
    \/ OpenDialog
    \/ CloseDialog
    \/ \E w \in WalletType : ClickConnect(w)
    \/ ClickDisconnect
    \/ \E p \in BagToSet(pending) : \E resp \in AccountLists(p.w) : Resolve(p, resp)
    \/ \E p \in BagToSet(pending) : Reject(p)
    \/ \E w \in WalletType : \E accounts \in AccountLists(w) : ProviderEvent(w, accounts)

Spec == Init /\ [][Next]_vars

----------------------------------------------------------------------------
(* Vocabulary of the properties *)

Live == mounted = "yes"

Connected == IF component = "Multi" THEN connectedWallet # NULL ELSE isConnected

\* the wallets a component has code for
KnownWallets(c) == IF c = "Multi" THEN WalletType ELSE {"MetaMask"}

\* the account strings providers hand out
ProviderAccounts ==
    UNION {{l[k] : k \in 1..Len(l)} : l \in UNION {AccountLists(w) : w \in WalletType}}

\* the last step was a task of connectWallet
ConnectStep == lastOp.op = "connectWallet"

----------------------------------------------------------------------------
(* C1 *)

\* the mount effect queries every present provider in ws
MountQueries(ws) ==
    lastOp.op = "mount" =>
        \A w \in ws \cap present : <<w, Query(w)>> \in lastOp.calls

\* a mount probe that answers with an account connects the mounted component
\* to that account
ProbeAnswerConnects ==
    (lastOp.op = "checkConnection" /\ lastOp.ok /\ lastOp.resp # <<>> /\ Live)
        => Connected /\ account = lastOp.resp[1]

\* C1 as stated: on mount every version of the component, MultiWalletConnect
\* included, probes each present provider it knows, and a probe that reports
\* an account leaves the component connected showing that account.
C1_EveryVersionProbesOnMount ==
    /\ MountQueries(KnownWallets(component))
    /\ ProbeAnswerConnects

\* C1 amended: both MetaMaskConnect versions query window.ethereum on mount
\* and a non-empty answer connects the mounted component to its first
\* account; MultiWalletConnect issues no provider call on mount.
C1_MetaMaskProbesOnMount ==
    /\ component \in MetaComponents => MountQueries(KnownWallets(component))
    /\ component = "Multi" /\ lastOp.op = "mount" =>
           lastOp.calls = {} /\ pending = EmptyBag
    /\ ProbeAnswerConnects

C1_Witness ==
    /\ component \in MetaComponents
    /\ lastOp.op = "checkConnection" /\ lastOp.ok /\ lastOp.resp # <<>>
    /\ Live /\ isConnected /\ account = lastOp.resp[1]

----------------------------------------------------------------------------
(* C2 *)

\* C2: every task of connectWallet(w) calls provider w only, and when the
\* attempt succeeds the mounted component is connected to w (cookie
\* walletType = w in MultiWalletConnect), account is the first entry of the
\* provider's answer and the dialog is closed.
C2_ConnectsToChosenWallet ==
    ConnectStep =>
        /\ \A c \in lastOp.attempt : c[1] = lastOp.w
        /\ (lastOp.outcome \in {"connected", "existing"} /\ Live) =>
              /\ Connected
              /\ component = "Multi" =>
                    /\ connectedWallet = lastOp.w
                    /\ cookies.walletType = lastOp.w
              /\ account = First(lastOp.resp)
              /\ ~isOpen

C2_Witness ==
    /\ ConnectStep /\ lastOp.outcome = "connected" /\ Live
    /\ component = "Multi" /\ connectedWallet = "Phantom" /\ account = "SolA"
    /\ ~isOpen

----------------------------------------------------------------------------
(* C3 *)

\* what an account-change event must leave behind in a mounted component
EventUpdatesState ==
    (lastOp.op = "accountsChanged" /\ Live) =>
        IF lastOp.resp # <<>>
        THEN account = lastOp.resp[1]
        ELSE /\ ~Connected
             /\ account = ""
             /\ component = "Multi" => cookies = NoCookies

\* C3 as stated, for every version of the component: an event carrying an
\* account makes it the displayed account, an event carrying none clears the
\* state (and the cookies in MultiWalletConnect).
C3_EventUpdatesEveryVersion == EventUpdatesState

\* C3 amended: the same, for the components that subscribe
\* (MultiWalletConnect and components/ui MetaMaskConnect); the older
\* MetaMaskConnect registers no listener and an event changes nothing in it.
C3_EventUpdatesSubscribers ==
    /\ component \in {"Multi", "MetaUI"} => EventUpdatesState
    /\ (component = "Meta0" /\ lastOp.op = "accountsChanged") =>
           listeners["MetaMask"] = <<>>

C3_Witness ==
    /\ component = "Multi" /\ Live /\ lastOp.op = "accountsChanged"
    /\ lastOp.resp = <<>> /\ effectRuns = 3
    /\ connectedWallet = NULL /\ account = "" /\ cookies = NoCookies

----------------------------------------------------------------------------
(* C4 *)

\* C4: in a mounted MultiWalletConnect the cookies mirror the state: both
\* absent when connectedWallet is null, otherwise walletType = connectedWallet
\* and accountAddress = account.
C4_CookiesMirrorState ==
    (component = "Multi" /\ Live) =>
        IF connectedWallet = NULL
        THEN cookies = NoCookies
        ELSE /\ cookies.walletType = connectedWallet
             /\ cookies.accountAddress = account

----------------------------------------------------------------------------
(* C5 *)

----------------------------------------------------------------------------
(* C6 *)

\* C6: a mounted component is connected exactly when account is an account
\* string a provider returned.
C6_ConnectedIffAccount ==
    Live => (Connected <=> account \in ProviderAccounts)

----------------------------------------------------------------------------
(* C7 *)

\* C7: in MultiWalletConnect every provider call is issued by a task of
\* connectWallet(w) and goes to provider w; the mount effect and the other
\* handlers call no provider, and nothing but connectWallet awaits one.
C7_QueriesOnlyFromConnectWallet ==
    component = "Multi" =>
        /\ lastOp.calls # {} =>
              /\ ConnectStep
              /\ \A c \in lastOp.calls : c[1] = lastOp.w
        /\ \A p \in BagToSet(pending) : p.fn = "connectWallet"

C7_Witness ==
    /\ component = "Multi" /\ Live /\ ConnectStep /\ lastOp.pc = "start"
    /\ lastOp.calls = {<<"Phantom", "isConnected">>}

----------------------------------------------------------------------------
(* C8 *)

\* C8: connectWallet(w) starts with the existing-connection query; when that
\* query answers with an account the attempt ends there, the mounted
\* component is connected to w with that account and the dialog closed, and
\* the attempt has not called the authorization request; the authorization
\* request is issued only by the task that follows a negative check.
C8_ExistingConnectionSkipsAuth ==
    (component = "Multi" /\ ConnectStep) =>
        /\ lastOp.pc = "start" => lastOp.calls = {<<lastOp.w, Query(lastOp.w)>>}
        /\ (lastOp.pc = "chk" /\ lastOp.ok /\ lastOp.resp # <<>>) =>
              /\ lastOp.outcome = "existing"
              /\ <<lastOp.w, Auth(lastOp.w)>> \notin lastOp.attempt
              /\ Live => /\ connectedWallet = lastOp.w
                         /\ account = lastOp.resp[1]
                         /\ ~isOpen
        /\ <<lastOp.w, Auth(lastOp.w)>> \in lastOp.calls =>
              lastOp.pc = "chk" /\ (~lastOp.ok \/ lastOp.resp = <<>>)

C8_Witness ==
    /\ component = "Multi" /\ Live /\ ConnectStep /\ lastOp.pc = "chk"
    /\ lastOp.outcome = "existing" /\ lastOp.w = "Keplr"
    /\ connectedWallet = "Keplr" /\ account = "cosmosA" /\ ~isOpen

----------------------------------------------------------------------------
(* C9 *)

\* C9: when the existing-connection check of connectWallet(w) is negative or
\* its query throws, the same task issues provider w's authorization request
\* and the attempt goes on awaiting it; a throwing Keplr query is reported
\* nowhere, any other throwing query is logged, none is alerted.
C9_NegativeCheckProceeds ==
    (component = "Multi" /\ ConnectStep /\ lastOp.pc = "chk"
       /\ (~lastOp.ok \/ lastOp.resp = <<>>)) =>
        /\ lastOp.calls = {<<lastOp.w, Auth(lastOp.w)>>}
        /\ lastOp.outcome = "pending"
        /\ \E p \in BagToSet(pending) : p.w = lastOp.w /\ p.pc = "req"
        /\ lastOp.reported =
              IF ~lastOp.ok /\ lastOp.w # "Keplr" THEN {"log"} ELSE {}

C9_Witness ==
    /\ component = "Multi" /\ ConnectStep /\ lastOp.pc = "chk"
    /\ ~lastOp.ok /\ lastOp.w = "Keplr"
    /\ lastOp.calls = {<<"Keplr", "enable">>}

----------------------------------------------------------------------------
(* C10 *)

\* C10: disconnectWallet applied to any reachable state gives a disconnected
\* state with account '', with the dialog closed in the components/ui
\* versions and no cookies in MultiWalletConnect; applied again it changes
\* nothing; the step that runs it calls no provider and leaves exactly that
\* state.
C10_DisconnectClearsAndIsIdempotent ==
    LET d == disconnectWallet(State) IN
    /\ d.connectedWallet = NULL /\ ~d.isConnected
    /\ d.account = ""
    /\ component \in {"Multi", "MetaUI"} => ~d.isOpen
    /\ component = "Meta0" => d.isOpen = isOpen
    /\ component = "Multi" => d.cookies = NoCookies
    /\ disconnectWallet(d) = d
    /\ lastOp.op = "disconnectWallet" =>
          /\ lastOp.calls = {}
          /\ Live => State = d

C10_Witness ==
    /\ component = "Multi" /\ Live /\ lastOp.op = "disconnectWallet"
    /\ effectRuns = 3 /\ cookies = NoCookies

----------------------------------------------------------------------------
(* C11 *)

\* C11: each provider holds at most one account-change listener while the
\* component is mounted and none once it is unmounted: every cleanup removes
\* what its effect run registered.
C11_CleanupRemovesListeners ==
    \A w \in WalletType :
        Len(listeners[w]) <= (IF mounted = "yes" THEN 1 ELSE 0)

----------------------------------------------------------------------------
(* C12 *)

\* C12: in a mounted MultiWalletConnect connected to one wallet, an
\* account-change event emitted by another wallet's provider changes neither
\* connectedWallet, nor account, nor the cookies.
C12_ForeignEventChangesNothing ==
    [][ (/\ component = "Multi" /\ mounted = "yes"
         /\ lastOp'.op = "accountsChanged"
         /\ connectedWallet # NULL
         /\ lastOp'.w # connectedWallet)
        => /\ connectedWallet' = connectedWallet
           /\ account' = account
           /\ cookies' = cookies
      ]_vars

----------------------------------------------------------------------------
(* C13 *)

\* an attempt for another wallet than w is still awaiting its provider
OtherAttemptPending(w) ==
    \E p \in BagToSet(pending) : p.fn = "connectWallet" /\ p.w # w

\* C13: in a mounted MultiWalletConnect, when connectWallet(w) succeeds while
\* an attempt for another wallet is still in flight or has already connected
\* that other wallet, connectedWallet and the walletType cookie become w and
\* account and the accountAddress cookie become the first account of w's
\* answer: the attempt that completes last decides all four.
C13_LastCompletedAttemptWins ==
    [][ (/\ component = "Multi" /\ mounted = "yes"
         /\ lastOp'.op = "connectWallet"
         /\ lastOp'.outcome \in {"connected", "existing"}
         /\ \/ OtherAttemptPending(lastOp'.w)
            \/ connectedWallet \notin {NULL, lastOp'.w})
        => /\ connectedWallet' = lastOp'.w
           /\ cookies'.walletType = lastOp'.w
           /\ account' = First(lastOp'.resp)
           /\ cookies'.accountAddress = CookieWrite(First(lastOp'.resp))
      ]_vars

\* the Phantom attempt completes after the MetaMask attempt started beside it
\* has connected: the effect ran on mount, for MetaMask and then for Phantom
\* with no disconnect in between
C13_Witness ==
    /\ component = "Multi" /\ Live
    /\ ConnectStep /\ lastOp.outcome = "connected" /\ lastOp.w = "Phantom"
    /\ connectedWallet = "Phantom" /\ account = "SolA"
    /\ cookies = [walletType |-> "Phantom", accountAddress |-> "SolA"]
    /\ Len(listeners["MetaMask"]) = 3
    /\ listeners["MetaMask"][2].cw = "MetaMask"
    /\ listeners["MetaMask"][3].cw = "Phantom"

====
